---------------------------- MODULE Spec2Model ----------------------------
(* MCItemID.py: extraction of Minecraft item identifiers and English names *)
(* from the name listing of a client JAR, and the text table written from  *)
(* them.  A Python str is modelled as a sequence of one-character strings, *)
(* so that replace(), title(), startswith(), endswith(), sorted() and the  *)
(* format padding are computed character by character.                    *)
EXTENDS Integers, Sequences, FiniteSets, TLC

(* ------------------------------ bounds -------------------------------- *)
\* largest number of entries under the three scanned prefixes in an archive
MaxEntries == 2

\* largest number of entries in an archive of the scan-order specification
MaxListing == 3

(* ------------------------- str primitives ----------------------------- *)
LowerLetters == <<"a", "b", "c", "d", "e", "f", "g", "h", "i", "j", "k", "l", "m", "n", "o", "p", "q", "r", "s", "t", "u", "v", "w", "x", "y", "z">>

UpperLetters == <<"A", "B", "C", "D", "E", "F", "G", "H", "I", "J", "K", "L", "M", "N", "O", "P", "Q", "R", "S", "T", "U", "V", "W", "X", "Y", "Z">>

LetterIndex(letters, c) == CHOOSE k \in 1..Len(letters) : letters[k] = c

IsLower(c) == \E k \in 1..Len(LowerLetters) : LowerLetters[k] = c

IsUpper(c) == \E k \in 1..Len(UpperLetters) : UpperLetters[k] = c

\* str.isalpha() restricted to one cased character
IsCased(c) == IsLower(c) \/ IsUpper(c)

ToUpper(c) == IF IsLower(c) THEN UpperLetters[LetterIndex(LowerLetters, c)] ELSE c

ToLower(c) == IF IsUpper(c) THEN LowerLetters[LetterIndex(UpperLetters, c)] ELSE c

\* ord() of the characters that occur in identifiers
Ord(c) ==
    IF IsLower(c) THEN 96 + LetterIndex(LowerLetters, c)
    ELSE IF IsUpper(c) THEN 64 + LetterIndex(UpperLetters, c)
    ELSE CASE c = " " -> 32
           [] c = "-" -> 45
           [] c = "." -> 46
           [] c = "/" -> 47
           [] c = ":" -> 58
           [] c = "_" -> 95

\* s.startswith(p)
StartsWith(s, p) == Len(s) >= Len(p) /\ SubSeq(s, 1, Len(p)) = p

\* s.endswith(p)
EndsWith(s, p) == Len(s) >= Len(p) /\ SubSeq(s, Len(s) - Len(p) + 1, Len(s)) = p

RECURSIVE Replace(_, _, _)
\* s.replace(old, new) for a non-empty old: every non-overlapping occurrence,
\* found left to right, is replaced
Replace(s, old, new) ==
    IF Len(s) < Len(old) THEN s
    ELSE IF SubSeq(s, 1, Len(old)) = old
         THEN new \o Replace(SubSeq(s, Len(old) + 1, Len(s)), old, new)
         ELSE <<s[1]>> \o Replace(Tail(s), old, new)

RECURSIVE TitleFrom(_, _)
\* the loop of str.title(): a cased character is upper-cased when the
\* previous character is not cased and lower-cased when it is
TitleFrom(s, prevCased) ==
    IF s = <<>> THEN <<>>
    ELSE LET c == s[1]
         IN  IF IsCased(c)
             THEN <<IF prevCased THEN ToLower(c) ELSE ToUpper(c)>> \o TitleFrom(Tail(s), TRUE)
             ELSE <<c>> \o TitleFrom(Tail(s), FALSE)

Title(s) == TitleFrom(s, FALSE)

RECURSIVE StrLess(_, _)
\* s < t on str: lexicographic by code point, a proper prefix is smaller
StrLess(s, t) ==
    IF t = <<>> THEN FALSE
    ELSE IF s = <<>> THEN TRUE
    ELSE IF s[1] = t[1] THEN StrLess(Tail(s), Tail(t))
    ELSE Ord(s[1]) < Ord(t[1])

RECURSIVE SortedDescending(_)
\* a sort whose comparison is reversed
SortedDescending(S) ==
    IF S = {} THEN <<>>
    ELSE LET m == CHOOSE x \in S : \A y \in S \ {x} : StrLess(y, x)
         IN  <<m>> \o SortedDescending(S \ {m})

RECURSIVE Sorted(_)
\* sorted(S) of a set of str
Sorted(S) ==
    IF S = {} THEN <<>>
    ELSE LET m == CHOOSE x \in S : \A y \in S \ {x} : StrLess(x, y)
         IN  <<m>> \o Sorted(S \ {m})

RECURSIVE Repeat(_, _)
\* c * n
Repeat(c, n) == IF n <= 0 THEN <<>> ELSE <<c>> \o Repeat(c, n - 1)

\* f"{s:{w}}" for a str s: left-aligned, padded with spaces to at least w
Format(s, w) == s \o Repeat(" ", w - Len(s))

RECURSIVE Filter(_, _)
\* [name for name in names if name.startswith(prefix)]
Filter(names, prefix) ==
    IF names = <<>> THEN <<>>
    ELSE IF StartsWith(names[1], prefix)
         THEN <<names[1]>> \o Filter(Tail(names), prefix)
         ELSE Filter(Tail(names), prefix)

RECURSIVE SplitColon(_)
\* s.split(':')
SplitColon(s) ==
    IF \A k \in 1..Len(s) : s[k] # ":" THEN <<s>>
    ELSE LET k == CHOOSE j \in 1..Len(s) : s[j] = ":" /\ \A h \in 1..(j - 1) : s[h] # ":"
         IN  <<SubSeq(s, 1, k - 1)>> \o SplitColon(SubSeq(s, k + 1, Len(s)))

RECURSIVE MaxOf(_)
\* max() of a non-empty list of integers
MaxOf(xs) ==
    IF Len(xs) = 1 THEN xs[1]
    ELSE LET r == MaxOf(Tail(xs)) IN IF xs[1] >= r THEN xs[1] ELSE r

(* --------------------------- literals --------------------------------- *)
ItemPrefix == <<"a", "s", "s", "e", "t", "s", "/", "m", "i", "n", "e", "c", "r", "a", "f", "t", "/", "m", "o", "d", "e", "l", "s", "/", "i", "t", "e", "m", "/">>

RecipesPrefix == <<"d", "a", "t", "a", "/", "m", "i", "n", "e", "c", "r", "a", "f", "t", "/", "r", "e", "c", "i", "p", "e", "s", "/">>

BlockPrefix == <<"a", "s", "s", "e", "t", "s", "/", "m", "i", "n", "e", "c", "r", "a", "f", "t", "/", "m", "o", "d", "e", "l", "s", "/", "b", "l", "o", "c", "k", "/">>

en_lang_path == <<"a", "s", "s", "e", "t", "s", "/", "m", "i", "n", "e", "c", "r", "a", "f", "t", "/", "l", "a", "n", "g", "/", "e", "n", "_", "u", "s", ".", "j", "s", "o", "n">>

DotJson == <<".", "j", "s", "o", "n">>

DotJar == <<".", "j", "a", "r">>

Namespace == <<"m", "i", "n", "e", "c", "r", "a", "f", "t", ":">>

ItemKeyPrefix == <<"i", "t", "e", "m", ".", "m", "i", "n", "e", "c", "r", "a", "f", "t", ".">>

BlockKeyPrefix == <<"b", "l", "o", "c", "k", ".", "m", "i", "n", "e", "c", "r", "a", "f", "t", ".">>

\* the prefixes of the second scan, in the order of the for statement
OtherPrefixes == <<RecipesPrefix, BlockPrefix>>


\* the title of the name column, 'Английское название', one code point each
HeaderTitle ==
    <<"U+0410", "U+043D", "U+0433", "U+043B", "U+0438", "U+0439", "U+0441",
      "U+043A", "U+043E", "U+0435", " ", "U+043D", "U+0430", "U+0437",
      "U+0432", "U+0430", "U+043D", "U+0438", "U+0435">>

(* ----------------------- the inputs of a run -------------------------- *)
\* the directory the user names
VersionPath == <<"v">>

\* files a version directory may hold
JarFile == <<"c", ".", "j", "a", "r">>

JsonFile == <<"c", ".", "j", "s", "o", "n">>

\* listings os.listdir may return
DirListings == {<<>>, <<JsonFile>>, <<JarFile>>, <<JsonFile, JarFile>>}

\* what follows the prefix in an archive entry: a directory entry, a model
\* file, a name with a second '.json' inside, a name without extension
Bodies == {<<>>, <<"a", "_", "b", ".", "j", "s", "o", "n">>, <<"a", ".", "j", "s", "o", "n", "_", "b", ".", "j", "s", "o", "n">>, <<"b">>}

EntryNames == {pre \o body : pre \in {ItemPrefix, RecipesPrefix, BlockPrefix}, body \in Bodies}

RECURSIVE SeqsUpTo(_, _)
SeqsUpTo(S, n) ==
    IF n = 0 THEN {<<>>}
    ELSE LET shorter == SeqsUpTo(S, n - 1)
         IN  shorter \cup {Append(q, x) : q \in {r \in shorter : Len(r) = n - 1}, x \in S}

EntryListings == SeqsUpTo(EntryNames, MaxEntries)

\* keys an en_us.json may hold
LangKeys == {ItemKeyPrefix \o <<"a", "_", "b">>, BlockKeyPrefix \o <<"a", "_", "b">>}

\* the string en_us.json gives for a key
LangValue(k) == IF StartsWith(k, ItemKeyPrefix) THEN <<"I", "t", "e", "m", " ", "A", "B">> ELSE <<"B", "l", "o", "c", "k", " ", "A", "B">>

\* en_us.json: not in the archive, not JSON, the JSON number 5, a JSON list
\* of strings, or a JSON object whose keys are ks
LangFiles ==
    {[kind |-> "absent", keys |-> {}], [kind |-> "unparsable", keys |-> {}],
     [kind |-> "number", keys |-> {}], [kind |-> "list", keys |-> LangKeys]}
    \cup {[kind |-> "object", keys |-> ks] : ks \in SUBSET LangKeys}

\* minecraft_items.txt before the run: missing, or left by an earlier run
OldFiles == {[exists |-> FALSE, lines |-> <<>>], [exists |-> TRUE, lines |-> <<<<"o", "l", "d">>>>]}

NoException == [type |-> "none", arg |-> <<>>]

EmptyDict == [type |-> "dict", keys |-> {}]

Envs ==
    {[exists |-> FALSE, listing |-> <<>>, valid |-> FALSE, entries |-> <<>>,
      lang |-> [kind |-> "absent", keys |-> {}], out |-> o] : o \in OldFiles}
    \cup {[exists |-> TRUE, listing |-> l, valid |-> FALSE, entries |-> <<>>,
           lang |-> [kind |-> "absent", keys |-> {}], out |-> o] :
              l \in DirListings, o \in OldFiles}
    \cup {[exists |-> TRUE, listing |-> l, valid |-> TRUE, entries |-> es,
           lang |-> lf, out |-> o] :
              l \in {<<JsonFile, JarFile>>}, es \in EntryListings,
              lf \in LangFiles, o \in OldFiles}

\* archives of the scan-order specification: longer listings of model and
\* recipe files of two items, with an en_us.json object or without one
ListingBodies == {<<"a", "_", "b", ".", "j", "s", "o", "n">>, <<"b">>}

ListingNames == {pre \o body : pre \in {ItemPrefix, RecipesPrefix, BlockPrefix}, body \in ListingBodies}

ListingEnvs ==
    {[exists |-> TRUE, listing |-> <<JarFile>>, valid |-> TRUE, entries |-> es,
      lang |-> lf, out |-> [exists |-> FALSE, lines |-> <<>>]] :
          es \in SeqsUpTo(ListingNames, MaxListing),
          lf \in {[kind |-> "absent", keys |-> {}]}
                 \cup {[kind |-> "object", keys |-> ks] : ks \in SUBSET LangKeys}}

(* ------------------------------ state --------------------------------- *)
VARIABLES
    minecraft_version_path, \* input() of main
    path_exists,            \* os.path.exists(minecraft_version_path)
    listdir,                \* os.listdir(minecraft_version_path)
    jar_valid,              \* the first .jar file is a readable ZIP archive
    jar_entries,            \* its entries under the scanned prefixes
    lang_file,              \* its en_us.json
    output_file,            \* minecraft_items.txt: whether it exists, and its lines
    pc,                     \* position of main
    jar_path,               \* extract_item_data_from_jar: jar_files[0]
    en_lang_data,
    item_ids,
    item_en_names,
    p,                      \* index of the prefix of the second scan
    i,                      \* index of the file of the running loop
    item_data,              \* the list returned to main
    max_id_len,             \* save_item_data_to_txt
    max_en_len,
    exception,              \* the exception being propagated
    printed                 \* what main printed

envVars == <<minecraft_version_path, path_exists, listdir, jar_valid, jar_entries, lang_file>>

scanVars == <<en_lang_data, item_ids, item_en_names, p, i>>

saveVars == <<output_file, max_id_len, max_en_len>>

vars == <<envVars, scanVars, saveVars, pc, jar_path, item_data, exception, printed>>

\* jar.namelist()
Namelist ==
    IF lang_file.kind = "absent" THEN jar_entries ELSE Append(jar_entries, en_lang_path)

InitEnv(e) ==
        /\ minecraft_version_path = VersionPath
        /\ path_exists = e.exists
        /\ listdir = e.listing
        /\ jar_valid = e.valid
        /\ jar_entries = e.entries
        /\ lang_file = e.lang
        /\ output_file = e.out
        /\ pc = "main"
        /\ jar_path = <<>>
        /\ en_lang_data = EmptyDict
        /\ item_ids = {}
        /\ item_en_names = <<>>
        /\ p = 1
        /\ i = 1
        /\ item_data = <<>>
        /\ max_id_len = 0
        /\ max_en_len = 0
        /\ exception = NoException
        /\ printed = <<>>

Init == \E e \in Envs : InitEnv(e)

InitListing == \E e \in ListingEnvs : InitEnv(e)


(* ------------------- extract_item_data_from_jar ----------------------- *)
\* a listing taken without the test of the extension
JarFilesUnfiltered(listing) == listing

\* [f for f in os.listdir(path) if f.endswith(".jar")]
JarFiles(listing) == SelectSeq(listing, LAMBDA f : EndsWith(f, DotJar))

\* json.load of en_us.json, under the try of the function: absent or not
\* JSON leaves the empty dict, any other JSON value is kept as parsed
LoadLang(lf) ==
    CASE lf.kind = "object" -> [type |-> "dict", keys |-> lf.keys]
      [] lf.kind = "list" -> [type |-> "list", keys |-> lf.keys]
      [] lf.kind = "number" -> [type |-> "int", keys |-> {}]
      [] OTHER -> EmptyDict

\* path.replace(prefix, '').replace('.json', '')
ItemName(path, prefix) == Replace(Replace(path, prefix, <<>>), DotJson, <<>>)

\* f"minecraft:{item_name}"
ItemId(item_name) == Namespace \o item_name

\* a default name without the call of title()
ReadableNoTitle(item_name) == Replace(item_name, <<"_">>, <<" ">>)

\* item_name.replace('_', ' ').title()
Readable(item_name) == Title(Replace(item_name, <<"_">>, <<" ">>))

\* item_en_names[item_id] = name
Put(names, item_id, name) == (item_id :> name) @@ names

\* key in en_lang_data raises TypeError on an int
InRaises(lang) == lang.type = "int"

\* en_lang_data[key] raises TypeError on a list
IndexRaises(lang) == lang.type = "list"

\* whether the body of the first loop raises for this item: the loop has no
\* try, so the exception leaves the function
ItemRaises(item_name, lang) ==
    \/ InRaises(lang)
    \/ (ItemKeyPrefix \o item_name) \in lang.keys /\ IndexRaises(lang)

\* item_en_names after the body of the first loop: the default name is
\* stored first, then the name of the localization file when it has the key
ItemNames(names, item_name, lang) ==
    LET item_id == ItemId(item_name)
        names1 == Put(names, item_id, Readable(item_name))
        lang_key == ItemKeyPrefix \o item_name
    IN  IF ItemRaises(item_name, lang) \/ lang_key \notin lang.keys
        THEN names1
        ELSE Put(names1, item_id, LangValue(lang_key))

\* a second loop without the test 'item_id not in item_en_names'
OtherNamesOverwrite(names, item_name, lang) ==
    LET item_id == ItemId(item_name)
        names1 == Put(names, item_id, Readable(item_name))
        block_key == BlockKeyPrefix \o item_name
    IN  IF InRaises(lang) \/ block_key \notin lang.keys \/ IndexRaises(lang)
        THEN names1
        ELSE Put(names1, item_id, LangValue(block_key))

\* item_en_names after the body of the second loop, whose exceptions are
\* caught by its own try: nothing is stored for an identifier that has a name
OtherNames(names, item_name, lang) ==
    LET item_id == ItemId(item_name)
        names1 == Put(names, item_id, Readable(item_name))
        block_key == BlockKeyPrefix \o item_name
    IN  IF item_id \in DOMAIN names THEN names
        ELSE IF InRaises(lang) \/ block_key \notin lang.keys \/ IndexRaises(lang)
        THEN names1
        ELSE Put(names1, item_id, LangValue(block_key))

\* item_en_names.get(item_id, default_name)
NameOf(names, item_id) ==
    IF item_id \in DOMAIN names THEN names[item_id]
    ELSE Title(Replace(SplitColon(item_id)[2], <<"_">>, <<" ">>))

\* the list of dictionaries built from sorted(item_ids)
Records(ids, names) ==
    LET order == Sorted(ids)
    IN  [k \in 1..Len(order) |-> [id |-> order[k], en_name |-> NameOf(names, order[k])]]

item_model_files == Filter(Namelist, ItemPrefix)

files == Filter(Namelist, OtherPrefixes[p])

Raise(type, arg) ==
    /\ exception' = [type |-> type, arg |-> arg]
    /\ pc' = "handler"

\* lines 11-16
FindJar ==
    /\ pc = "find_jar"
    /\ IF JarFiles(listdir) = <<>>
       THEN Raise("FileNotFoundError", minecraft_version_path) /\ UNCHANGED jar_path
       ELSE /\ jar_path' = minecraft_version_path \o <<"/">> \o JarFiles(listdir)[1]
            /\ pc' = "open_jar"
            /\ UNCHANGED exception
    /\ UNCHANGED <<envVars, scanVars, saveVars, item_data, printed>>

\* line 23: a file that is not a ZIP archive raises BadZipFile
OpenJar ==
    /\ pc = "open_jar"
    /\ IF jar_valid
       THEN pc' = "load_lang" /\ UNCHANGED exception
       ELSE Raise("BadZipFile", jar_path)
    /\ UNCHANGED <<envVars, scanVars, saveVars, jar_path, item_data, printed>>

\* lines 27-36
LoadLangData ==
    /\ pc = "load_lang"
    /\ en_lang_data' = LoadLang(lang_file)
    /\ i' = 1
    /\ pc' = "scan_items"
    /\ UNCHANGED <<envVars, saveVars, item_ids, item_en_names, p, jar_path, item_data,
                   exception, printed>>

\* lines 39-52, one model file
ScanItemModel ==
    /\ pc = "scan_items"
    /\ i <= Len(item_model_files)
    /\ LET item_name == ItemName(item_model_files[i], ItemPrefix)
       IN  /\ item_ids' = item_ids \cup {ItemId(item_name)}
           /\ item_en_names' = ItemNames(item_en_names, item_name, en_lang_data)
           /\ IF ItemRaises(item_name, en_lang_data)
              THEN Raise("TypeError", <<>>) /\ UNCHANGED i
              ELSE i' = i + 1 /\ UNCHANGED <<pc, exception>>
    /\ UNCHANGED <<envVars, saveVars, en_lang_data, p, jar_path, item_data, printed>>

\* line 39 with the list exhausted, line 55
EndItemModels ==
    /\ pc = "scan_items"
    /\ i > Len(item_model_files)
    /\ pc' = "scan_others"
    /\ p' = 1
    /\ i' = 1
    /\ UNCHANGED <<envVars, saveVars, en_lang_data, item_ids, item_en_names, jar_path,
                   item_data, exception, printed>>

\* lines 57-79, one recipe or block model file
ScanOther ==
    /\ pc = "scan_others"
    /\ i <= Len(files)
    /\ LET item_name == ItemName(files[i], OtherPrefixes[p])
       IN  /\ item_ids' = item_ids \cup {ItemId(item_name)}
           /\ item_en_names' = OtherNames(item_en_names, item_name, en_lang_data)
    /\ i' = i + 1
    /\ UNCHANGED <<envVars, saveVars, en_lang_data, p, pc, jar_path, item_data,
                   exception, printed>>

\* line 57 with the list exhausted: the next prefix, or the end of the scan
NextPrefix ==
    /\ pc = "scan_others"
    /\ i > Len(files)
    /\ IF p < Len(OtherPrefixes)
       THEN p' = p + 1 /\ i' = 1 /\ UNCHANGED pc
       ELSE pc' = "build" /\ UNCHANGED <<p, i>>
    /\ UNCHANGED <<envVars, saveVars, en_lang_data, item_ids, item_en_names, jar_path,
                   item_data, exception, printed>>

\* lines 82-92, and the count main prints at line 129
BuildRecords ==
    /\ pc = "build"
    /\ item_data' = Records(item_ids, item_en_names)
    /\ printed' = Append(printed, [msg |-> "found", arg |-> <<>>])
    /\ pc' = "save"
    /\ UNCHANGED <<envVars, scanVars, saveVars, jar_path, exception>>

(* ----------------------- save_item_data_to_txt ------------------------ *)
\* a width without the two characters of padding
ColumnWidthNoPad(lens, floor) == MaxOf(IF lens = <<>> THEN <<floor>> ELSE lens)

\* max(lens or [floor]) + 2
ColumnWidth(lens, floor) == MaxOf(IF lens = <<>> THEN <<floor>> ELSE lens) + 2

IdLens(data) == [k \in 1..Len(data) |-> Len(data[k].id)]

NameLens(data) == [k \in 1..Len(data) |-> Len(data[k].en_name)]

Header(idw, enw) == Format(<<"I", "D">>, idw) \o <<" ", "|", " ">> \o Format(HeaderTitle, enw)

Separator(idw, enw) == Repeat("-", idw) \o <<"-", "+", "-">> \o Repeat("-", enw)

Row(item, idw, enw) == Format(item.id, idw) \o <<" ", "|", " ">> \o Format(item.en_name, enw)

\* the lines written, each without its "\n"
Table(data, idw, enw) ==
    <<Header(idw, enw), Separator(idw, enw)>>
        \o [k \in 1..Len(data) |-> Row(data[k], idw, enw)]

\* lines 98-112: the file is opened with mode 'w' and written
Save ==
    /\ pc = "save"
    /\ max_id_len' = ColumnWidth(IdLens(item_data), 10)
    /\ max_en_len' = ColumnWidth(NameLens(item_data), 20)
    /\ output_file' = [exists |-> TRUE, lines |-> Table(item_data, max_id_len', max_en_len')]
    /\ printed' = Append(printed, [msg |-> "done", arg |-> <<>>])
    /\ pc' = "done"
    /\ UNCHANGED <<envVars, scanVars, jar_path, item_data, exception>>

\* lines 98-106 when open() raises: the file is left as it was
SaveFails ==
    /\ pc = "save"
    /\ max_id_len' = ColumnWidth(IdLens(item_data), 10)
    /\ max_en_len' = ColumnWidth(NameLens(item_data), 20)
    /\ Raise("OSError", <<>>)
    /\ UNCHANGED <<envVars, scanVars, output_file, jar_path, item_data, printed>>

(* ------------------------------- main --------------------------------- *)
\* lines 116-120
CheckPath ==
    /\ pc = "main"
    /\ IF path_exists
       THEN pc' = "find_jar" /\ UNCHANGED printed
       ELSE /\ printed' = Append(printed, [msg |-> "no directory", arg |-> minecraft_version_path])
            /\ pc' = "done"
    /\ UNCHANGED <<envVars, scanVars, saveVars, jar_path, item_data, exception>>

\* lines 136-137
Handler ==
    /\ pc = "handler"
    /\ printed' = Append(printed, [msg |-> exception.type, arg |-> exception.arg])
    /\ pc' = "done"
    /\ UNCHANGED <<envVars, scanVars, saveVars, jar_path, item_data, exception>>

Next ==
    \/ CheckPath
    \/ FindJar
    \/ OpenJar
    \/ LoadLangData
    \/ ScanItemModel
    \/ EndItemModels
    \/ ScanOther
    \/ NextPrefix
    \/ BuildRecords
    \/ Save
    \/ SaveFails
    \/ Handler

Spec == Init /\ [][Next]_vars


\* the same program over the archives of ListingEnvs
SpecListing == InitListing /\ [][Next]_vars

(* ----------------------------- properties ----------------------------- *)
\* extract_item_data_from_jar has returned item_data to main
Extracted == pc = "save"

\* save_item_data_to_txt has returned
Saved == pc = "done" /\ printed # <<>> /\ printed[Len(printed)].msg = "done"

\* the part of an identifier after 'minecraft:'
SegOf(item_id) == SubSeq(item_id, Len(Namespace) + 1, Len(item_id))

\* the keys of the localization mapping, empty when en_us.json is no object
LocalizationKeys == IF lang_file.kind = "object" THEN lang_file.keys ELSE {}

\* some entry under the prefix derives the identifier
ProducedBy(prefix, item_id) ==
    \E k \in 1..Len(jar_entries) :
        /\ StartsWith(jar_entries[k], prefix)
        /\ ItemId(ItemName(jar_entries[k], prefix)) = item_id

\* underscores to spaces and title case, stated position by position
SpecFallback(seg) ==
    [k \in 1..Len(seg) |->
        IF seg[k] = "_" THEN " "
        ELSE IF ~IsCased(seg[k]) THEN seg[k]
        ELSE IF k > 1 /\ IsCased(seg[k - 1]) THEN ToLower(seg[k])
        ELSE ToUpper(seg[k])]

\* the entry name without its leading prefix and without one trailing '.json'
SpecSegment(name, prefix) ==
    LET rest == SubSeq(name, Len(prefix) + 1, Len(name))
    IN  IF EndsWith(rest, DotJson) THEN SubSeq(rest, 1, Len(rest) - Len(DotJson)) ELSE rest

\* C1: a returned record has the localized string of the key looked up for
\* its identifier (item.* for an item-model path, else block.* for a recipe
\* or block-model path) whenever the mapping has that key, whichever
\* category produced the identifier first
C1_LocalizedNameWins ==
    Extracted =>
        \A k \in 1..Len(item_data) :
            LET r == item_data[k]
                item_key == ItemKeyPrefix \o SegOf(r.id)
                block_key == BlockKeyPrefix \o SegOf(r.id)
            IN  IF ProducedBy(ItemPrefix, r.id) /\ item_key \in LocalizationKeys
                THEN r.en_name = LangValue(item_key)
                ELSE (/\ ProducedBy(RecipesPrefix, r.id) \/ ProducedBy(BlockPrefix, r.id)
                      /\ block_key \in LocalizationKeys)
                         => r.en_name = LangValue(block_key)

\* C2: the returned list is strictly ascending by identifier, so it is
\* sorted and no two records share an identifier
C2_StrictlyAscending ==
    Extracted =>
        \A j, k \in 1..Len(item_data) :
            j < k => StrLess(item_data[j].id, item_data[k].id)

\* two records are returned from a listing in which several entries derive
\* the same identifier
C2_Witness ==
    /\ Extracted
    /\ Len(item_data) = 2
    /\ Len(jar_entries) = 3
    /\ \E j, k \in 1..3 : j # k /\ jar_entries[j] = jar_entries[k]

\* C3: every returned record has an identifier minecraft:<segment> with a
\* non-empty segment, and a non-empty name
C3_NonEmptySegmentAndName ==
    Extracted =>
        \A k \in 1..Len(item_data) :
            /\ StartsWith(item_data[k].id, Namespace)
            /\ Len(item_data[k].id) > Len(Namespace)
            /\ Len(item_data[k].en_name) > 0

\* C4: a returned record whose identifier has no localization entry (no
\* item.* key when an item-model path derives it, no block.* key when a
\* recipe or block-model path derives it) is named by the fallback
\* transform of its segment
C4_FallbackName ==
    Extracted =>
        \A k \in 1..Len(item_data) :
            LET r == item_data[k]
                item_key == ItemKeyPrefix \o SegOf(r.id)
                block_key == BlockKeyPrefix \o SegOf(r.id)
            IN  (/\ ProducedBy(ItemPrefix, r.id) => item_key \notin LocalizationKeys
                 /\ (ProducedBy(RecipesPrefix, r.id) \/ ProducedBy(BlockPrefix, r.id))
                        => block_key \notin LocalizationKeys)
                    => r.en_name = SpecFallback(SegOf(r.id))

\* an archive whose en_us.json has a key, and a record of another kind of
\* path that gets the fallback name 'A B' of the segment 'a_b'
C4_Witness ==
    /\ Extracted
    /\ lang_file.kind = "object"
    /\ lang_file.keys # {}
    /\ \E k \in 1..Len(item_data) :
           /\ item_data[k].id = Namespace \o <<"a", "_", "b">>
           /\ item_data[k].en_name = <<"A", " ", "B">>

\* C5: with en_us.json absent or malformed the extraction does not fail and
\* returns every identifier with its fallback name
C5_MalformedLangIsEmptyMapping ==
    lang_file.kind \in {"absent", "unparsable", "number", "list"} =>
        /\ exception.type # "TypeError"
        /\ Extracted =>
               \A k \in 1..Len(item_data) :
                   item_data[k].en_name = SpecFallback(SegOf(item_data[k].id))

\* C6: each column width is the largest length of its column plus 2; for an
\* empty list the widths are 12 and 22 and the file is the header row and
\* the separator row
C6_ColumnWidths ==
    /\ (max_id_len > 0 /\ item_data # <<>>) =>
           /\ \A k \in 1..Len(item_data) : Len(item_data[k].id) + 2 <= max_id_len
           /\ \E k \in 1..Len(item_data) : Len(item_data[k].id) + 2 = max_id_len
           /\ \A k \in 1..Len(item_data) : Len(item_data[k].en_name) + 2 <= max_en_len
           /\ \E k \in 1..Len(item_data) : Len(item_data[k].en_name) + 2 = max_en_len
    /\ (max_id_len > 0 /\ item_data = <<>>) => max_id_len = 12 /\ max_en_len = 22
    /\ (Saved /\ item_data = <<>>) =>
           output_file.lines =
               <<<<"I", "D">> \o Repeat(" ", 10) \o <<" ", "|", " ">> \o HeaderTitle \o Repeat(" ", 3),
                 Repeat("-", 12) \o <<"-", "+", "-">> \o Repeat("-", 22)>>

\* a table of two records whose identifiers and names differ in length
C6_Witness ==
    /\ Saved
    /\ Len(item_data) = 2
    /\ Len(item_data[1].id) < Len(item_data[2].id)
    /\ Len(item_data[1].en_name) < Len(item_data[2].en_name)

\* C7: in an existing directory without a file ending in '.jar' the
\* extraction raises the not-found error that names the directory and main
\* prints it; the output file changes only in a run whose extraction
\* returned
C7_NoJarNoOutput ==
    [][/\ (/\ path_exists
           /\ \A k \in 1..Len(listdir) : ~EndsWith(listdir[k], DotJar)
           /\ pc' \in {"handler", "done"})
              => /\ exception' = [type |-> "FileNotFoundError", arg |-> minecraft_version_path]
                 /\ pc' = "done" =>
                        printed' = <<[msg |-> "FileNotFoundError",
                                      arg |-> minecraft_version_path]>>
       /\ output_file' # output_file
              => /\ pc = "save"
                 /\ exception = NoException
                 /\ \E k \in 1..Len(listdir) : EndsWith(listdir[k], DotJar)
                 /\ jar_valid]_vars

\* the run in a directory that holds only a .json file has ended with the
\* not-found error printed and the file of an earlier run as it was
C7_Witness ==
    /\ pc = "done"
    /\ listdir = <<JsonFile>>
    /\ printed = <<[msg |-> "FileNotFoundError", arg |-> minecraft_version_path]>>
    /\ output_file = [exists |-> TRUE, lines |-> <<<<"o", "l", "d">>>>]

\* the name the category of the prefix resolves for a segment
ResolvedBy(prefix, seg) ==
    LET key == (IF prefix = ItemPrefix THEN ItemKeyPrefix ELSE BlockKeyPrefix) \o seg
    IN  IF key \in LocalizationKeys THEN LangValue(key) ELSE SpecFallback(seg)

\* the first category, in the order item models, recipes, block models,
\* that has an entry deriving the identifier
FirstCategory(item_id) ==
    IF ProducedBy(ItemPrefix, item_id) THEN ItemPrefix
    ELSE IF ProducedBy(RecipesPrefix, item_id) THEN RecipesPrefix
    ELSE BlockPrefix

\* C8: no step of the scan replaces a stored localized name by a fallback
\* name, and the returned name of an identifier is the one resolved by the
\* highest-priority category that produced it
C8_PriorityAndNoDowngrade ==
    [][/\ \A id \in DOMAIN item_en_names :
              (\E key \in LocalizationKeys : item_en_names[id] = LangValue(key))
                  => item_en_names'[id] # SpecFallback(SegOf(id))
       /\ Extracted' =>
              \A k \in 1..Len(item_data') :
                  item_data'[k].en_name =
                      ResolvedBy(FirstCategory(item_data'[k].id), SegOf(item_data'[k].id))]_vars

\* all three categories derive minecraft:a_b and the record has the name of
\* the item.* key although the block.* key is there as well
C8_Witness ==
    /\ Extracted
    /\ LocalizationKeys = LangKeys
    /\ \A prefix \in {ItemPrefix, RecipesPrefix, BlockPrefix} :
           ProducedBy(prefix, Namespace \o <<"a", "_", "b">>)
    /\ \E k \in 1..Len(item_data) :
           /\ item_data[k].id = Namespace \o <<"a", "_", "b">>
           /\ item_data[k].en_name = LangValue(ItemKeyPrefix \o <<"a", "_", "b">>)

\* C9: for every entry under one of the three prefixes the identifier
\* minecraft:<segment> is collected, where the segment is the entry name
\* without the leading prefix and without one trailing '.json', nothing
\* else removed
C9_SegmentIsStrippedName ==
    Extracted =>
        \A k \in 1..Len(jar_entries) :
            \A prefix \in {ItemPrefix, RecipesPrefix, BlockPrefix} :
                StartsWith(jar_entries[k], prefix)
                    => \E j \in 1..Len(item_data) :
                           item_data[j].id = Namespace \o SpecSegment(jar_entries[k], prefix)

\* C10: every line of the written file has the length identifier width + 3
\* + name width
C10_AllLinesSameLength ==
    Saved =>
        \A k \in 1..Len(output_file.lines) :
            Len(output_file.lines[k]) = max_id_len + 3 + max_en_len

=============================================================================
